---- MODULE Spec2Model ----
(***************************************************************************)
(* Model of panorama.cpp (jkelaty/panorama-stitching): the command line    *)
(* dispatch of parseArgs, the five frame source adapters (runDemo,         *)
(* cameraCapture, fileSelectGUI, uploadImages, videoCapture), the          *)
(* cardinality check of main, createPanorama and promptSaveImage.          *)
(*                                                                         *)
(* The external libraries (OpenCV, cxxopts, portable-file-dialogs) are the *)
(* environment: what they return is chosen with \E, and every call the     *)
(* program makes into them is appended to log, in program order.           *)
(*                                                                         *)
(* A cv::Mat is a header that points at a reference counted pixel buffer.  *)
(* A Mat is modelled by the index of its buffer in heap (0: no data), so   *)
(* that a copy of the header shares the buffer and a clone does not.       *)
(***************************************************************************)
EXTENDS Integers, Sequences, FiniteSets, TLC

VARIABLES
    pc,              \* position of the process
    argv,            \* the command line, as cxxopts sees it
    status,          \* Status returned by parseArgs ("none" before it returns)
    images,          \* std::vector<Image> images of main: a sequence of Mats
    heap,            \* the pixel buffers allocated so far
    image_files,     \* runDemo's local image_files
    files,           \* the files argument of the last uploadImages call
    frequency,       \* the frequency argument of videoCapture
    feed,            \* the cv::VideoCapture of the running adapter
    frame_position,  \* videoCapture's local frame_position
    frame_frequency, \* videoCapture's local frame_frequency
    panorama,        \* createPanorama's local panorama (a Mat)
    polls,           \* save.ready(1000) calls that returned false
    exitCode,        \* the process's exit status (-1 while it runs)
    log              \* the calls into the libraries and the console, in order

vars == <<pc, argv, status, images, heap, image_files, files, frequency, feed,
          frame_position, frame_frequency, panorama, polls, exitCode, log>>

----------------------------------------------------------------------------
(* Bounds of the model *)

\* camera frames one run of cameraCapture can receive
MaxCycles == 4
\* length of a file list given with -i or chosen in the file dialog
MaxFiles == 2
\* a decode can fail only at one of the first MaxBadPos places of a list
MaxBadPos == 2
\* largest frame count a video reports
MaxTotal == 100
\* frames a video may hold beyond the count it reports
MaxUnder == 1
\* largest demo id tried on the command line
MaxDemoId == 12
\* frames videoCapture appends before the model stops following its loop
MaxSamples == 25
\* times the save prompt is polled before it resolves
MaxPolls == 2

----------------------------------------------------------------------------
(* Program constants *)

RETURN == 13
ESCAPE == 27

\* keys cv::waitKey(1) can return: -1 (none within the timeout), RETURN,
\* ESCAPE, and one other key (space)
Keys == {-1, RETURN, ESCAPE, 32}

Options == {"help", "demo", "camera", "select", "images", "video"}

\* the demo catalog of runDemo
demos == <<
    <<"carmel",    18>>, <<"diamondhead", 23>>, <<"example",   2>>,
    <<"fishbowl",  13>>, <<"goldengate",   6>>, <<"halfdome", 14>>,
    <<"hotel",      8>>, <<"office",       4>>, <<"rio",      56>>,
    <<"shanghai",  30>>, <<"yard",         9>> >>

\* cv::Stitcher::Status
StitcherStatus == {"OK", "ERR_NEED_MORE_IMGS", "ERR_HOMOGRAPHY_EST_FAIL",
                   "ERR_CAMERA_PARAMS_ADJUST_FAIL"}

\* pfd::button values a yes_no message box resolves to
Buttons == {"yes", "no", "cancel"}

\* a rational <<numerator, denominator>>; the default argument of videoCapture
DefaultFrequency == <<1, 10>>
NoFrequency == <<0, 0>>
\* values of the frequency parameter: the default, another legal one, and
\* four outside the open interval (0,1)
Frequencies == {DefaultFrequency, <<1, 2>>, <<0, 1>>, <<1, 1>>, <<3, 2>>, <<-1, 2>>}

----------------------------------------------------------------------------
(* Inputs *)

Filenames == {"a.png", "b.txt"}

RECURSIVE SeqsUpTo(_, _)
SeqsUpTo(S, n) ==
    IF n = 0 THEN {<<>>}
    ELSE LET shorter == SeqsUpTo(S, n - 1)
         IN  shorter \cup {Append(s, x) : s \in {t \in shorter : Len(t) = n - 1}, x \in S}

FileLists == SeqsUpTo(Filenames, MaxFiles)

\* a command line: the options that occur in it and the values of --demo and
\* --images; malformed: cxxopts throws on it (unknown option, missing or
\* unparsable value)
Argv(fl, d, fs, bad) == [flags |-> fl, demo |-> d, files |-> fs, malformed |-> bad]

\* the values used when several options are combined: --demo=6 ("hotel") and
\* --images=a.png,b.txt
SomeFiles == <<"a.png", "b.txt">>

Argvs ==
    {Argv({}, 0, <<>>, TRUE), Argv({"camera", "video"}, 0, <<>>, TRUE)}
    \cup {Argv({o}, 0, <<>>, FALSE) : o \in {"help", "camera", "select", "video"}}
    \cup {Argv({}, 0, <<>>, FALSE)}
    \cup {Argv({"demo"}, d, <<>>, FALSE) : d \in 0..MaxDemoId}
    \cup {Argv({"images"}, 0, fs, FALSE) : fs \in FileLists \ {<<>>}}
    \cup {Argv(fl, IF "demo" \in fl THEN 6 ELSE 0,
               IF "images" \in fl THEN SomeFiles ELSE <<>>, FALSE) :
            fl \in {s \in SUBSET Options : Cardinality(s) > 1}}

NoFeed == [dev |-> "none", state |-> "none", pos |-> 0, count |-> 0, frames |-> 0]

Init ==
    /\ pc = "start"
    /\ argv \in Argvs
    /\ status = "none"
    /\ images = <<>>
    /\ heap = <<>>
    /\ image_files = <<>>
    /\ files = <<>>
    /\ frequency = NoFrequency
    /\ feed = NoFeed
    /\ frame_position = 0
    /\ frame_frequency = 0
    /\ panorama = 0
    /\ polls = 0
    /\ exitCode = -1
    /\ log = <<>>

----------------------------------------------------------------------------
(* The log and the pixel buffers *)

\* one call into a library or one line on the console
Ev(op, arg, n) == [op |-> op, arg |-> arg, n |-> n]

Events(op) == SelectSeq(log, LAMBDA e : e.op = op)
EventsOf(op, arg) == SelectSeq(log, LAMBDA e : e.op = op /\ e.arg = arg)

\* the content of a pixel buffer: where it was read from, and whether the
\* instruction text of cameraCapture has been drawn into it
Pixels(kind, path, idx) == [kind |-> kind, path |-> path, idx |-> idx, text |-> FALSE]

\* Image b( a ): the copy constructor of cv::Mat copies the header, and the
\* copy points at the buffer of a
MatCopy(m) == m

\* cv::putText draws into the buffer its first argument points at
putText(hp, m) == [hp EXCEPT ![m].text = TRUE]

\* std::cout << message << std::endl, then pfd::notify(..., pfd::icon::info)
showNotification(lg, message) ==
    lg \o <<Ev("cout", message, 0), Ev("notify_info", message, 0)>>

\* std::cout << message << std::endl, then pfd::notify(..., pfd::icon::error)
showError(lg, message) ==
    lg \o <<Ev("cout", message, 0), Ev("notify_error", message, 0)>>

----------------------------------------------------------------------------
(* parseArgs: the else-if chain over result.count(...) *)

\* a chain that looks at camera before demo
SelectionCameraFirst(fl) ==
    IF "help" \in fl THEN "help"
    ELSE IF "camera" \in fl THEN "camera"
    ELSE IF "demo" \in fl THEN "demo"
    ELSE IF "select" \in fl THEN "select"
    ELSE IF "images" \in fl THEN "images"
    ELSE IF "video" \in fl THEN "video"
    ELSE "none"

\* a chain that looks at help last
SelectionHelpLast(fl) ==
    IF "demo" \in fl THEN "demo"
    ELSE IF "camera" \in fl THEN "camera"
    ELSE IF "select" \in fl THEN "select"
    ELSE IF "images" \in fl THEN "images"
    ELSE IF "video" \in fl THEN "video"
    ELSE IF "help" \in fl THEN "help"
    ELSE "none"

Selection(fl) ==
    IF "help" \in fl THEN "help"
    ELSE IF "demo" \in fl THEN "demo"
    ELSE IF "camera" \in fl THEN "camera"
    ELSE IF "select" \in fl THEN "select"
    ELSE IF "images" \in fl THEN "images"
    ELSE IF "video" \in fl THEN "video"
    ELSE "none"

\* options.parse throws cxxopts::OptionException: the catch block prints and
\* returns Status::ERROR
ParseError ==
    /\ pc = "start"
    /\ argv.malformed
    /\ log' = Append(log, Ev("cout", "Error parsing args", 0))
    /\ status' = "ERROR"
    /\ pc' = "main"
    /\ UNCHANGED <<argv, images, heap, image_files, files, frequency, feed,
                   frame_position, frame_frequency, panorama, polls, exitCode>>

ParseHelp ==
    /\ pc = "start"
    /\ ~argv.malformed
    /\ Selection(argv.flags) = "help"
    /\ log' = Append(log, Ev("cout", "help", 0))
    /\ status' = "EXIT"
    /\ pc' = "main"
    /\ UNCHANGED <<argv, images, heap, image_files, files, frequency, feed,
                   frame_position, frame_frequency, panorama, polls, exitCode>>

ParseNone ==
    /\ pc = "start"
    /\ ~argv.malformed
    /\ Selection(argv.flags) = "none"
    /\ log' = Append(log, Ev("cout", "Use -h or --help for more information", 0))
    /\ status' = "EXIT"
    /\ pc' = "main"
    /\ UNCHANGED <<argv, images, heap, image_files, files, frequency, feed,
                   frame_position, frame_frequency, panorama, polls, exitCode>>

----------------------------------------------------------------------------
(* uploadImages *)

\* the places of a list of n files at which cv::imread may fail
BadPlaces(n) == SUBSET (1 .. (IF n < MaxBadPos THEN n ELSE MaxBadPos))

\* the Mat cv::imread returns for the file at place i of fs: an empty one
\* (no data) when the file cannot be decoded, else one with a buffer of its
\* own, allocated after those of the files decoded before it
imread(hp, fs, bad, i) ==
    IF i \in bad THEN 0
    ELSE Len(hp) + Cardinality({j \in 1 .. i : j \notin bad})

\* a loop that pushes back only the Mats that have data
uploadImagesSkipEmpty(st, fs, bad) ==
    LET places  == [i \in 1 .. Len(fs) |-> i]
        decoded == SelectSeq(places, LAMBDA i : i \notin bad)
    IN  [images |-> st.images \o [k \in 1 .. Len(decoded) |-> Len(st.heap) + k],
         heap   |-> st.heap \o [k \in 1 .. Len(decoded) |-> Pixels("file", fs[decoded[k]], 0)],
         log    |-> st.log \o [i \in 1 .. Len(fs) |->
                                 Ev("imread", fs[i], IF i \in bad THEN 0 ELSE 1)]]

\* the loop over files: every file is read and the Mat read is pushed back,
\* with or without data.
\* st: the images, the heap and the log at the call; bad: where imread fails
uploadImages(st, fs, bad) ==
    LET places  == [i \in 1 .. Len(fs) |-> i]
        decoded == SelectSeq(places, LAMBDA i : i \notin bad)
    IN  [images |-> st.images \o [i \in 1 .. Len(fs) |-> imread(st.heap, fs, bad, i)],
         heap   |-> st.heap \o [k \in 1 .. Len(decoded) |-> Pixels("file", fs[decoded[k]], 0)],
         log    |-> st.log \o [i \in 1 .. Len(fs) |->
                                 Ev("imread", fs[i], IF i \in bad THEN 0 ELSE 1)]]

\* parseArgs calls uploadImages with the value of --images
UploadImagesArg ==
    /\ pc = "start"
    /\ ~argv.malformed
    /\ Selection(argv.flags) = "images"
    /\ \E bad \in BadPlaces(Len(argv.files)) :
         LET st == uploadImages(
                     [images |-> images, heap |-> heap,
                      log |-> Append(log, Ev("call", "uploadImages", 0))],
                     argv.files, bad)
         IN  /\ images' = st.images
             /\ heap' = st.heap
             /\ log' = st.log
    /\ files' = argv.files
    /\ status' = "OK"
    /\ pc' = "main"
    /\ UNCHANGED <<argv, image_files, frequency, feed, frame_position,
                   frame_frequency, panorama, polls, exitCode>>

\* fileSelectGUI: pfd::open_file(...).result() is what the user selected
\* (nothing when the dialog is cancelled)
FileSelectGUI ==
    /\ pc = "start"
    /\ ~argv.malformed
    /\ Selection(argv.flags) = "select"
    /\ \E chosen \in FileLists :
         \E bad \in BadPlaces(Len(chosen)) :
           LET st == uploadImages(
                       [images |-> images, heap |-> heap,
                        log |-> log \o <<Ev("call", "fileSelectGUI", 0),
                                         Ev("open_file", "", Len(chosen)),
                                         Ev("call", "uploadImages", 1)>>],
                       chosen, bad)
           IN  /\ images' = st.images
               /\ heap' = st.heap
               /\ log' = st.log
               /\ files' = chosen
    /\ status' = "OK"
    /\ pc' = "main"
    /\ UNCHANGED <<argv, image_files, frequency, feed, frame_position,
                   frame_frequency, panorama, polls, exitCode>>

----------------------------------------------------------------------------
(* runDemo *)

\* an assert without its upper bound
DemoIdOkNoUpper(demo) == 0 <= demo

\* assert(0 <= demo && demo < demos.size())
DemoIdOk(demo) == 0 <= demo /\ demo < Len(demos)

\* demos[demo]; the assert keeps the index inside the catalog
DemoAt(demo) == IF demo < Len(demos) THEN demos[demo + 1] ELSE <<"", 0>>

Digit(d) == <<"0", "1", "2", "3", "4", "5", "6", "7", "8", "9">>[d + 1]

\* std::to_string of a std::size_t
RECURSIVE to_string(_)
to_string(i) == IF i < 10 THEN Digit(i) ELSE to_string(i \div 10) \o Digit(i % 10)

\* (i <= 10 ? "0" : "")
PadOffByOne(i) == IF i <= 10 THEN "0" ELSE ""

\* (i < 10 ? "0" : "")
Pad(i) == IF i < 10 THEN "0" ELSE ""

DemoFile(name, i) ==
    "./demos/" \o name \o "/" \o name \o "-" \o Pad(i) \o to_string(i) \o ".png"

\* the loop over i = 0 .. demos[demo].second - 1
\* a loop that starts at i = 1 in place of i = 0
DemoFilesFromOne(demo) ==
    [k \in 1 .. DemoAt(demo)[2] - 1 |-> DemoFile(DemoAt(demo)[1], k)]

\* the loop for (i = 0; i < demos[demo].second; ++i) that pushes back the
\* path of frame i
DemoFiles(demo) ==
    [k \in 1 .. DemoAt(demo)[2] |-> DemoFile(DemoAt(demo)[1], k - 1)]

RunDemo ==
    /\ pc = "start"
    /\ ~argv.malformed
    /\ Selection(argv.flags) = "demo"
    /\ IF ~DemoIdOk(argv.demo)
       THEN \* the assert fails: abort()
            /\ log' = Append(log, Ev("call", "runDemo", 0))
            /\ pc' = "aborted"
            /\ exitCode' = 134
            /\ UNCHANGED <<status, images, heap, image_files, files>>
       ELSE \E bad \in BadPlaces(Len(DemoFiles(argv.demo))) :
              LET st == uploadImages(
                          [images |-> images, heap |-> heap,
                           log |-> log \o <<Ev("call", "runDemo", 0),
                                            Ev("call", "uploadImages", 1)>>],
                          DemoFiles(argv.demo), bad)
              IN  /\ image_files' = DemoFiles(argv.demo)
                  /\ files' = DemoFiles(argv.demo)
                  /\ images' = st.images
                  /\ heap' = st.heap
                  /\ log' = st.log
                  /\ status' = "OK"
                  /\ pc' = "main"
                  /\ UNCHANGED exitCode
    /\ UNCHANGED <<argv, frequency, feed, frame_position, frame_frequency,
                   panorama, polls>>

----------------------------------------------------------------------------
(* cameraCapture *)

\* a switch that captures on every key but ESCAPE
KeyActionAnyKey(key) ==
    IF key = ESCAPE THEN "exit"
    ELSE IF key # -1 THEN "capture"
    ELSE "none"

\* the switch over cv::waitKey(1)
KeyAction(key) ==
    IF key = RETURN THEN "capture"
    ELSE IF key = ESCAPE THEN "exit"
    ELSE "none"

\* Image display_frame( frame ): the Mat that is drawn on and shown
DisplayFrame(frame) == MatCopy(frame)

\* a cameraCapture that ends without feed.release()
CameraCloseNoRelease(lg) == Append(lg, Ev("destroyAllWindows", "", 0))

\* feed.release(); cv::destroyAllWindows(); then parseArgs returns Status::OK
CameraClose(lg) == lg \o <<Ev("release", "camera", 0), Ev("destroyAllWindows", "", 0)>>

\* feed.open( 0 ): the default camera, which may not open
CameraOpen ==
    /\ pc = "start"
    /\ ~argv.malformed
    /\ Selection(argv.flags) = "camera"
    /\ \E ok \in BOOLEAN :
         /\ feed' = [dev |-> "camera", state |-> IF ok THEN "open" ELSE "failed",
                     pos |-> 0, count |-> 0, frames |-> 0]
         /\ log' = log \o <<Ev("call", "cameraCapture", 0),
                            Ev("open", "camera", IF ok THEN 1 ELSE 0)>>
    /\ pc' = "camera"
    /\ UNCHANGED <<argv, status, images, heap, image_files, files, frequency,
                   frame_position, frame_frequency, panorama, polls, exitCode>>

\* one cycle of the loop in which feed >> frame delivers a frame: the preview
\* is drawn and shown, one key is polled and acted on
CameraFrame ==
    /\ pc = "camera"
    /\ feed.state = "open"
    /\ feed.pos < MaxCycles
    /\ \E key \in Keys :
         LET heap1 == Append(heap, Pixels("camera", "", feed.pos))
             frame == Len(heap1)
             display_frame == DisplayFrame(frame)
             heap2 == putText(putText(heap1, display_frame), display_frame)
             shown == log \o <<Ev("read", "camera", feed.pos),
                               Ev("putText", "", display_frame),
                               Ev("putText", "", display_frame),
                               Ev("imshow", "Camera feed", display_frame),
                               Ev("waitKey", "", key)>>
         IN  /\ heap' = heap2
             /\ CASE KeyAction(key) = "capture" ->
                       /\ images' = Append(images, frame)
                       /\ log' = Append(shown, Ev("cout", "Adding frame...", 0))
                       /\ feed' = [feed EXCEPT !.pos = @ + 1]
                       /\ UNCHANGED <<pc, status>>
                  [] KeyAction(key) = "exit" ->
                       /\ log' = CameraClose(
                                   Append(shown, Ev("cout", "Finished taking images...", 0)))
                       /\ feed' = [feed EXCEPT !.pos = @ + 1, !.state = "released"]
                       /\ status' = "OK"
                       /\ pc' = "main"
                       /\ UNCHANGED images
                  [] OTHER ->
                       /\ log' = shown
                       /\ feed' = [feed EXCEPT !.pos = @ + 1]
                       /\ UNCHANGED <<pc, status, images>>
    /\ UNCHANGED <<argv, image_files, files, frequency, frame_position,
                   frame_frequency, panorama, polls, exitCode>>

\* the cycle in which feed >> frame leaves frame empty (the camera did not
\* open, or delivers nothing more): break
CameraEnd ==
    /\ pc = "camera"
    /\ log' = CameraClose(Append(log, Ev("read_none", "camera", feed.pos)))
    /\ feed' = [feed EXCEPT !.state = "released"]
    /\ status' = "OK"
    /\ pc' = "main"
    /\ UNCHANGED <<argv, images, heap, image_files, files, frequency,
                   frame_position, frame_frequency, panorama, polls, exitCode>>

----------------------------------------------------------------------------
(* videoCapture *)

\* an assert that lets the two ends of the interval through
FrequencyOkClosed(f) == 0 <= f[1] /\ f[1] <= f[2]

\* assert(0 < frequency && frequency < 1), frequency = f[1] / f[2], f[2] > 0
FrequencyOk(f) == 0 < f[1] /\ f[1] < f[2]

\* std::size_t frame_frequency = feed.get(CAP_PROP_FRAME_COUNT) * frequency:
\* the product of two non-negative doubles, truncated
Stride(count, f) == (count * f[1]) \div f[2]

\* a seek relative to the position after the read, one frame further
SeekTargetAfterRead(position, stride) == position + 1 + stride

\* feed.set(CAP_PROP_POS_FRAMES, frame_position + frame_frequency)
SeekTarget(position, stride) == position + stride

\* the call of videoCapture with frequency f, up to the loop: the assert, then
\* feed.open( video ) and the two feed.get calls. A video that does not open
\* reports position 0 and count 0 and delivers no frame.
VideoCaptureCall(f) ==
    /\ pc = "start"
    /\ ~argv.malformed
    /\ Selection(argv.flags) = "video"
    /\ frequency' = f
    /\ IF ~FrequencyOk(f)
       THEN \* the assert fails: abort()
            /\ log' = Append(log, Ev("call", "videoCapture", 0))
            /\ pc' = "aborted"
            /\ exitCode' = 134
            /\ UNCHANGED <<feed, frame_position, frame_frequency>>
       ELSE \E ok \in BOOLEAN, total \in 0 .. MaxTotal, under \in 0 .. MaxUnder :
              /\ ok \/ (total = 0 /\ under = 0)
              /\ feed' = [dev |-> "video", state |-> IF ok THEN "open" ELSE "failed",
                          pos |-> 0, count |-> total, frames |-> total + under]
              /\ frame_position' = 0
              /\ frame_frequency' = Stride(total, f)
              /\ log' = log \o <<Ev("call", "videoCapture", 0),
                                 Ev("open", "video", IF ok THEN 1 ELSE 0)>>
              /\ pc' = "video"
              /\ UNCHANGED exitCode
    /\ UNCHANGED <<argv, status, images, heap, image_files, files, panorama, polls>>

\* parseArgs calls videoCapture(images, video): frequency is the default
VideoCapture == VideoCaptureCall(DefaultFrequency)

\* one iteration in which feed >> frame delivers the frame at feed.pos: it is
\* pushed back, and the feed is set to frame_position + frame_frequency
VideoFrame ==
    /\ pc = "video"
    /\ feed.state = "open"
    /\ feed.pos < feed.frames
    /\ Len(images) < MaxSamples
    /\ heap' = Append(heap, Pixels("video", "", feed.pos))
    /\ images' = Append(images, Len(heap) + 1)
    /\ feed' = [feed EXCEPT !.pos = SeekTarget(frame_position, frame_frequency)]
    /\ frame_position' = SeekTarget(frame_position, frame_frequency)
    /\ log' = log \o <<Ev("read", "video", feed.pos),
                       Ev("set_pos", "video", SeekTarget(frame_position, frame_frequency))>>
    /\ UNCHANGED <<pc, argv, status, image_files, files, frequency,
                   frame_frequency, panorama, polls, exitCode>>

\* the iteration in which feed >> frame leaves frame empty: break, release,
\* and parseArgs returns Status::OK
VideoEnd ==
    /\ pc = "video"
    /\ feed.state # "open" \/ feed.pos >= feed.frames
    /\ log' = log \o <<Ev("read_none", "video", feed.pos), Ev("release", "video", 0)>>
    /\ feed' = [feed EXCEPT !.state = "released"]
    /\ status' = "OK"
    /\ pc' = "main"
    /\ UNCHANGED <<argv, images, heap, image_files, files, frequency,
                   frame_position, frame_frequency, panorama, polls, exitCode>>

----------------------------------------------------------------------------
(* main, createPanorama, promptSaveImage *)

\* images.size() > 0 in place of images.size() > 1
EnoughImagesOne(imgs) == Len(imgs) > 0

\* images.size() > 1
EnoughImages(imgs) == Len(imgs) > 1

\* status is not Status::OK: return 0
MainExit ==
    /\ pc = "main"
    /\ status # "OK"
    /\ exitCode' = 0
    /\ pc' = "done"
    /\ UNCHANGED <<argv, status, images, heap, image_files, files, frequency, feed,
                   frame_position, frame_frequency, panorama, polls, log>>

MainNotEnough ==
    /\ pc = "main"
    /\ status = "OK"
    /\ ~EnoughImages(images)
    /\ log' = showError(log, "Not enough images provided")
    /\ exitCode' = 0
    /\ pc' = "done"
    /\ UNCHANGED <<argv, status, images, heap, image_files, files, frequency, feed,
                   frame_position, frame_frequency, panorama, polls>>

\* a test that takes ERR_NEED_MORE_IMGS for a success
StitchOkLenient(st) == st \in {"OK", "ERR_NEED_MORE_IMGS"}

\* status == cv::Stitcher::OK
StitchOk(st) == st = "OK"

\* a success branch that shows the panorama before it notifies
previewPanoramaShowFirst(lg, m) ==
    showNotification(Append(lg, Ev("imshow", "Panorama", m)),
                     "Panorama successfully created!")

\* showNotification("Panorama successfully created!"), then
\* cv::imshow( "Panorama", panorama )
previewPanorama(lg, m) ==
    Append(showNotification(lg, "Panorama successfully created!"),
           Ev("imshow", "Panorama", m))

\* createPanorama up to cv::waitKey(0): the stitcher's status is the
\* environment's
CreatePanorama ==
    /\ pc = "main"
    /\ status = "OK"
    /\ EnoughImages(images)
    /\ \E st \in StitcherStatus :
         LET stitched == log \o <<Ev("cout", "Creating panorama...", 0),
                                  Ev("stitch", st, Len(images))>>
         IN  IF StitchOk(st)
             THEN /\ heap' = Append(heap, Pixels("panorama", "", 0))
                  /\ panorama' = Len(heap) + 1
                  /\ log' = previewPanorama(stitched, Len(heap) + 1)
                  /\ pc' = "viewer"
                  /\ UNCHANGED exitCode
             ELSE /\ log' = showError(stitched, "Panorama could not be created.")
                  /\ exitCode' = 0
                  /\ pc' = "done"
                  /\ UNCHANGED <<heap, panorama>>
    /\ UNCHANGED <<argv, status, images, image_files, files, frequency, feed,
                   frame_position, frame_frequency, polls>>

\* cv::waitKey(0) returns, and promptSaveImage opens the yes/no message box
ViewerDismissed ==
    /\ pc = "viewer"
    /\ log' = log \o <<Ev("waitKey0", "", 0), Ev("message", "Save image?", 0)>>
    /\ pc' = "prompt"
    /\ UNCHANGED <<argv, status, images, heap, image_files, files, frequency, feed,
                   frame_position, frame_frequency, panorama, polls, exitCode>>

\* save.ready(1000) returns false: poll again
PromptPoll ==
    /\ pc = "prompt"
    /\ polls < MaxPolls
    /\ polls' = polls + 1
    /\ log' = Append(log, Ev("ready", "", 0))
    /\ UNCHANGED <<pc, argv, status, images, heap, image_files, files, frequency,
                   feed, frame_position, frame_frequency, panorama, exitCode>>

SavePaths == {"", "out.png"}

\* a promptSaveImage whose test of the path is inverted (dir == "")
promptSaveImageEmptyPath(lg, button, dir, written) ==
    LET answered == Append(lg, Ev("ready", button, 1))
    IN  IF button = "yes"
        THEN LET asked == Append(answered, Ev("save_file", dir, 0))
             IN  IF dir = ""
                 THEN showNotification(
                        Append(asked, Ev(IF written THEN "imwrite" ELSE "imwrite_failed",
                                         dir, panorama)),
                        "Panorama saved at: " \o dir)
                 ELSE asked
        ELSE answered

\* a promptSaveImage that goes on unless the box was cancelled
\* (save.result() != pfd::button::cancel)
promptSaveImageUnlessCancel(lg, button, dir, written) ==
    LET answered == Append(lg, Ev("ready", button, 1))
    IN  IF button # "cancel"
        THEN LET asked == Append(answered, Ev("save_file", dir, 0))
             IN  IF dir # ""
                 THEN showNotification(
                        Append(asked, Ev(IF written THEN "imwrite" ELSE "imwrite_failed",
                                         dir, panorama)),
                        "Panorama saved at: " \o dir)
                 ELSE asked
        ELSE answered

\* what follows the message box's answer: the save dialog on yes, cv::imwrite
\* and the notification on a non-empty path (the value cv::imwrite returns is
\* not looked at); then cv::destroyAllWindows() and return 0
promptSaveImage(lg, button, dir, written) ==
    LET answered == Append(lg, Ev("ready", button, 1))
    IN  IF button = "yes"
        THEN LET asked == Append(answered, Ev("save_file", dir, 0))
             IN  IF dir # ""
                 THEN showNotification(
                        Append(asked, Ev(IF written THEN "imwrite" ELSE "imwrite_failed",
                                         dir, panorama)),
                        "Panorama saved at: " \o dir)
                 ELSE asked
        ELSE answered

PromptResolved ==
    /\ pc = "prompt"
    /\ \E button \in Buttons, dir \in SavePaths, written \in BOOLEAN :
         log' = Append(promptSaveImage(log, button, dir, written),
                       Ev("destroyAllWindows", "", 0))
    /\ exitCode' = 0
    /\ pc' = "done"
    /\ UNCHANGED <<argv, status, images, heap, image_files, files, frequency, feed,
                   frame_position, frame_frequency, panorama, polls>>

----------------------------------------------------------------------------
(* The program *)

Next ==
    \/ ParseError
    \/ ParseHelp
    \/ ParseNone
    \/ RunDemo
    \/ CameraOpen
    \/ CameraFrame
    \/ CameraEnd
    \/ FileSelectGUI
    \/ UploadImagesArg
    \/ VideoCapture
    \/ VideoFrame
    \/ VideoEnd
    \/ MainExit
    \/ MainNotEnough
    \/ CreatePanorama
    \/ ViewerDismissed
    \/ PromptPoll
    \/ PromptResolved

Spec == Init /\ [][Next]_vars

(* videoCapture on its own, with any value of its frequency parameter *)

InitVideo ==
    /\ Init
    /\ argv = Argv({"video"}, 0, <<>>, FALSE)

VideoCaptureAny == \E f \in Frequencies : VideoCaptureCall(f)

NextVideo ==
    \/ VideoCaptureAny
    \/ VideoFrame
    \/ VideoEnd

SpecVideo == InitVideo /\ [][NextVideo]_vars

----------------------------------------------------------------------------
(* Properties *)

Range(f) == {f[i] : i \in DOMAIN f}

\* the options parseArgs looks at before opt
LookedAtBefore(opt) ==
    CASE opt = "demo"   -> {"help"}
      [] opt = "camera" -> {"help", "demo"}
      [] opt = "select" -> {"help", "demo", "camera"}
      [] opt = "images" -> {"help", "demo", "camera", "select"}
      [] opt = "video"  -> {"help", "demo", "camera", "select", "images"}

\* the command line parsed, and opt is the first option given in the order
\* parseArgs looks at them
Dispatched(opt) ==
    /\ ~argv.malformed
    /\ opt \in argv.flags
    /\ argv.flags \cap LookedAtBefore(opt) = {}

\* C1: whenever acquisition has completed (parseArgs returned OK) with fewer
\* than two images, the stitcher has not been called, and once the run has
\* ended the error "Not enough images provided" has been reported, once, on
\* the console and as an error notification.
C1_NoStitchBelowTwo ==
    (status = "OK" /\ Len(images) < 2) =>
        /\ Len(Events("stitch")) = 0
        /\ pc = "done" =>
             /\ Len(EventsOf("notify_error", "Not enough images provided")) = 1
             /\ Len(EventsOf("cout", "Not enough images provided")) = 1

C1_Witness ==
    /\ pc = "done"
    /\ status = "OK"
    /\ Len(images) = 1
    /\ Len(EventsOf("notify_error", "Not enough images provided")) = 1

\* C2 (as claimed): every camera frame in the ImageSet is the frame as the
\* camera delivered it: the instruction text has not been drawn into its
\* pixel buffer.
C2_CapturedFramesUnannotated ==
    \A i \in 1 .. Len(images) :
        (images[i] # 0 /\ heap[images[i]].kind = "camera") => ~heap[images[i]].text

\* the keys polled in the cycles of cameraCapture so far: the i-th belongs to
\* the i-th frame the camera delivered (frame number i - 1)
CameraKeys == [i \in 1 .. Len(Events("waitKey")) |-> Events("waitKey")[i].n]

\* the frame numbers of the cycles whose key was RETURN, in order
ReturnCycles ==
    SelectSeq([i \in 1 .. Len(CameraKeys) |-> i - 1], LAMBDA k : CameraKeys[k + 1] = RETURN)

\* C3: in a camera run the ImageSet is, at every moment, the frames of the
\* cycles whose key was RETURN, in capture order; the loop is left exactly
\* when a cycle polled ESCAPE or got no frame, so no cycle follows either.
C3_CapturedOnReturnInOrder ==
    feed.dev = "camera" =>
        /\ Len(images) = Len(ReturnCycles)
        /\ \A j \in 1 .. Len(images) :
             /\ images[j] # 0
             /\ heap[images[j]].kind = "camera"
             /\ heap[images[j]].idx = ReturnCycles[j]
        /\ Len(Events("waitKey")) = Len(EventsOf("read", "camera"))
        /\ (pc = "camera") <=>
             (ESCAPE \notin Range(CameraKeys) /\ Len(EventsOf("read_none", "camera")) = 0)
        /\ \A i \in 1 .. Len(CameraKeys) - 1 : CameraKeys[i] # ESCAPE

\* the scripted sequence frame+RETURN, frame, frame+RETURN, frame+ESCAPE
C3_Witness ==
    /\ feed.dev = "camera"
    /\ CameraKeys = <<RETURN, -1, RETURN, ESCAPE>>
    /\ Len(images) = 2
    /\ heap[images[1]].idx = 0
    /\ heap[images[2]].idx = 2
    /\ pc = "done"

\* the reads videoCapture asked of the feed, answered with a frame or not
VideoRequests ==
    SelectSeq(log, LAMBDA e : e.op \in {"read", "read_none"} /\ e.arg = "video")

VideoRequestPositions == [i \in 1 .. Len(VideoRequests) |-> VideoRequests[i].n]

\* trunc(total * f) for a rational f = f[1] / f[2] in (0,1)
TruncatedProduct(total, f) ==
    CHOOSE s \in 0 .. total : s * f[2] <= total * f[1] /\ total * f[1] < (s + 1) * f[2]

\* C4 (as claimed): for a video reporting 100 frames sampled with f = 0.1,
\* the sampler asks for the frames at 0, 10, ..., 90, makes exactly 10 reads,
\* and stops without a read at position 100.
C4_TenReadsOnly ==
    (feed.dev = "video" /\ feed.state = "released" /\ feed.count = 100
        /\ frequency = DefaultFrequency) =>
        VideoRequestPositions = [i \in 1 .. 10 |-> 10 * (i - 1)]

\* C4 (amended): the sampler asks for the frames at 0, s, 2s, ... with
\* s = trunc(T * f), appends every frame it is given, in that order, and
\* stops at the first read that gives no frame. For T = 100, f = 0.1 and a
\* video that holds the 100 frames it reports, it appends the 10 frames at
\* 0, 10, ..., 90 and stops on an 11th read, at position 100, which gives no
\* frame.
C4_StrideSampling ==
    feed.dev = "video" =>
        LET s == TruncatedProduct(feed.count, frequency)
        IN  /\ \A i \in 1 .. Len(VideoRequests) : VideoRequests[i].n = (i - 1) * s
            /\ \A i \in 1 .. Len(VideoRequests) - 1 : VideoRequests[i].op = "read"
            /\ Len(images) = Len(EventsOf("read", "video"))
            /\ \A j \in 1 .. Len(images) :
                 /\ images[j] # 0
                 /\ heap[images[j]].kind = "video"
                 /\ heap[images[j]].idx = (j - 1) * s
            /\ (feed.state = "released") <=>
                 (Len(VideoRequests) > 0
                    /\ VideoRequests[Len(VideoRequests)].op = "read_none")
            /\ (feed.state = "released" /\ feed.count = 100 /\ feed.frames = 100
                  /\ frequency = DefaultFrequency) =>
                 /\ Len(images) = 10
                 /\ VideoRequestPositions = [i \in 1 .. 11 |-> 10 * (i - 1)]

C4_Witness ==
    /\ feed.dev = "video"
    /\ feed.state = "released"
    /\ feed.count = 100
    /\ feed.frames = 100
    /\ frequency = DefaultFrequency
    /\ Len(images) = 10
    /\ VideoRequests[11] = Ev("read_none", "video", 100)

\* C5 (as claimed): with the default frequency, a video that opened and holds
\* the frames it reports, at least 10 of them, gives exactly 10 frames.
C5_TenFramesCaptured ==
    (feed.dev = "video" /\ feed.state = "released" /\ frequency = DefaultFrequency
        /\ feed.count >= 10 /\ feed.frames = feed.count) =>
        Len(images) = 10

\* C6: a call of videoCapture with a frequency outside the open interval
\* (0,1) ends in the failed assert: the video is never opened, no frame is
\* read, and no image is appended.
C6_BadFrequencyRejected ==
    (frequency # NoFrequency /\ (frequency[1] <= 0 \/ frequency[1] >= frequency[2])) =>
        /\ pc = "aborted"
        /\ feed.dev = "none"
        /\ Len(Events("open")) = 0
        /\ Len(VideoRequests) = 0
        /\ images = <<>>

C6_Witness ==
    /\ frequency = <<1, 1>>
    /\ pc = "aborted"
    /\ Events("call") = <<Ev("call", "videoCapture", 0)>>

\* C7: a demo run with an id of 11 or more ends in the failed assert: no path
\* is generated, uploadImages is not called, no file is read, and parseArgs
\* never returns OK with an empty ImageSet.
C7_DemoIdOutOfRangeRejected ==
    (Dispatched("demo") /\ argv.demo >= 11 /\ pc # "start") =>
        /\ pc = "aborted"
        /\ status = "none"
        /\ image_files = <<>>
        /\ files = <<>>
        /\ images = <<>>
        /\ Len(Events("imread")) = 0
        /\ Len(EventsOf("call", "uploadImages")) = 0

C7_Witness ==
    /\ Dispatched("demo")
    /\ argv.demo = 11
    /\ pc = "aborted"

\* the path of frame i of a dataset, written with its two decimal digits
TwoDigitPath(name, i) ==
    "./demos/" \o name \o "/" \o name \o "-"
        \o Digit(i \div 10) \o Digit(i % 10) \o ".png"

\* C8: after runDemo with a valid id, image_files holds frameCount paths, the
\* one of index i being ./demos/<name>/<name>-<NN>.png with NN the two digits
\* of i; uploadImages was called with that list and read the files in that
\* order. The entry ("hotel", 8) gives hotel-00.png ... hotel-07.png.
C8_DemoPaths ==
    (Dispatched("demo") /\ argv.demo < 11 /\ pc # "start") =>
        /\ Len(image_files) = demos[argv.demo + 1][2]
        /\ \A i \in 0 .. Len(image_files) - 1 :
             image_files[i + 1] = TwoDigitPath(demos[argv.demo + 1][1], i)
        /\ files = image_files
        /\ [i \in 1 .. Len(Events("imread")) |-> Events("imread")[i].arg] = image_files
        /\ argv.demo = 6 =>
             image_files = <<"./demos/hotel/hotel-00.png", "./demos/hotel/hotel-01.png",
                             "./demos/hotel/hotel-02.png", "./demos/hotel/hotel-03.png",
                             "./demos/hotel/hotel-04.png", "./demos/hotel/hotel-05.png",
                             "./demos/hotel/hotel-06.png", "./demos/hotel/hotel-07.png">>

C8_Witness ==
    /\ Dispatched("demo")
    /\ argv.demo = 0
    /\ status = "OK"
    /\ Len(image_files) = 18
    /\ image_files[10] = "./demos/carmel/carmel-09.png"
    /\ image_files[11] = "./demos/carmel/carmel-10.png"

\* C9: after uploadImages was called with a list of n files, the ImageSet has
\* n entries; entry i is the Mat read from file i: an empty one when the
\* decode failed, else one whose pixels come from file i.
C9_OneEntryPerPath ==
    (status = "OK" /\ (Dispatched("demo") \/ Dispatched("select") \/ Dispatched("images"))) =>
        /\ Len(images) = Len(files)
        /\ Len(Events("imread")) = Len(files)
        /\ \A i \in 1 .. Len(files) :
             /\ Events("imread")[i].arg = files[i]
             /\ (images[i] = 0) <=> (Events("imread")[i].n = 0)
             /\ images[i] # 0 =>
                  /\ heap[images[i]].kind = "file"
                  /\ heap[images[i]].path = files[i]

\* three paths or more, the second of which fails to decode
C9_Witness ==
    /\ status = "OK"
    /\ Len(files) >= 3
    /\ Len(images) = Len(files)
    /\ images[1] # 0
    /\ images[2] = 0
    /\ images[3] # 0

\* the adapters parseArgs called
DispatchCalls == SelectSeq(log, LAMBDA e : e.op = "call" /\ e.n = 0)

\* C10: parseArgs calls at most one adapter in a run; when help was asked
\* for, or no option was given, it calls none, nothing is opened or read, the
\* stitcher is not called and no error is reported: the run ends with status
\* EXIT.
C10_StrictDispatch ==
    /\ Len(DispatchCalls) <= 1
    /\ Cardinality({e.arg : e \in Range(Events("open"))}
                     \cup {e.op : e \in Range(Events("open_file"))}) <= 1
    /\ (~argv.malformed /\ ("help" \in argv.flags \/ argv.flags = {})) =>
         /\ Len(Events("call")) = 0
         /\ Len(Events("open")) = 0
         /\ Len(Events("open_file")) = 0
         /\ Len(Events("imread")) = 0
         /\ Len(Events("stitch")) = 0
         /\ Len(Events("notify_error")) = 0
         /\ Len(EventsOf("cout", "Error parsing args")) = 0
         /\ images = <<>>
         /\ status \in {"none", "EXIT"}
         /\ pc = "done" => (status = "EXIT" /\ exitCode = 0)

C10_Witness ==
    /\ ~argv.malformed
    /\ argv.flags = {"help", "camera", "video"}
    /\ pc = "done"
    /\ status = "EXIT"

\* the options that name a source of images
SourceOptions == {"demo", "camera", "select", "images", "video"}

\* the adapter parseArgs calls for a source option
AdapterOf(opt) ==
    CASE opt = "demo"   -> "runDemo"
      [] opt = "camera" -> "cameraCapture"
      [] opt = "select" -> "fileSelectGUI"
      [] opt = "images" -> "uploadImages"
      [] opt = "video"  -> "videoCapture"

\* nothing was acquired or attempted: no adapter called, no device, dialog
\* or file opened
NoAcquisition ==
    /\ Len(Events("call")) = 0
    /\ Len(Events("open")) = 0
    /\ Len(Events("open_file")) = 0
    /\ Len(Events("imread")) = 0
    /\ images = <<>>

\* C11 (as claimed): a command line with more than one source option is an
\* argument error: once parseArgs has run, nothing was acquired or attempted
\* and the error was reported.
C11_ConflictingFlagsRejected ==
    (~argv.malformed /\ Cardinality(argv.flags \cap SourceOptions) > 1 /\ pc # "start") =>
        /\ NoAcquisition
        /\ Len(EventsOf("cout", "Error parsing args")) = 1

\* C11 (amended): a command line on which the option parser throws is
\* reported on the console and the run ends with nothing acquired or
\* attempted and the stitcher not called; a command line with several source
\* options is no error: the adapter of the first of demo, camera, select,
\* images, video given (help absent) is called, and no other.
C11_ParseErrorsStopTheRun ==
    /\ (argv.malformed /\ pc # "start") =>
         /\ status = "ERROR"
         /\ log = <<Ev("cout", "Error parsing args", 0)>>
         /\ NoAcquisition
         /\ pc \in {"main", "done"}
    /\ \A opt \in SourceOptions :
         (Dispatched(opt) /\ pc # "start") =>
             DispatchCalls = <<Ev("call", AdapterOf(opt), 0)>>

C11_Witness ==
    /\ argv.malformed
    /\ argv.flags = {"camera", "video"}
    /\ pc = "done"
    /\ status = "ERROR"

\* C12 (as claimed): at the end of the run the exit status is zero after help
\* or no option, and non-zero after a parse failure.
C12_ExitIndication ==
    pc = "done" =>
        /\ status = "EXIT" => exitCode = 0
        /\ status = "ERROR" => exitCode # 0

\* the calls of cv::imwrite, whatever they returned
EncodeCalls == SelectSeq(log, LAMBDA e : e.op \in {"imwrite", "imwrite_failed"})

\* the notifications that say the panorama was saved
SaveConfirmations ==
    SelectSeq(log, LAMBDA e : e.op = "notify_info" /\ e.arg # "Panorama successfully created!")

\* the answers of the yes/no message box
PromptAnswers == SelectSeq(log, LAMBDA e : e.op = "ready" /\ e.n = 1)

\* C13: when the run has ended after a successful stitch, the answer yes and
\* a non-empty path from the save dialog, cv::imwrite was called exactly once,
\* with that path and the panorama, and exactly one notification says the
\* panorama was saved at that path.
C13_SaveEncodesOnce ==
    (pc = "done" /\ Len(EventsOf("stitch", "OK")) = 1
        /\ PromptAnswers = <<Ev("ready", "yes", 1)>>
        /\ Len(Events("save_file")) = 1 /\ Events("save_file")[1].arg # "") =>
        LET dir == Events("save_file")[1].arg
        IN  /\ Len(EncodeCalls) = 1
            /\ EncodeCalls[1].arg = dir
            /\ EncodeCalls[1].n = panorama
            /\ panorama # 0
            /\ heap[panorama].kind = "panorama"
            /\ SaveConfirmations = <<Ev("notify_info", "Panorama saved at: " \o dir, 0)>>

C13_Witness ==
    /\ pc = "done"
    /\ PromptAnswers = <<Ev("ready", "yes", 1)>>
    /\ Events("save_file") = <<Ev("save_file", "out.png", 0)>>
    /\ Events("imwrite") = <<Ev("imwrite", "out.png", panorama)>>

\* C14: when the message box was answered with anything but yes, the save
\* dialog is not opened; when it was, or the save dialog gave an empty path,
\* cv::imwrite is not called and no notification says the panorama was saved.
C14_CancelledSaveWritesNothing ==
    (Len(PromptAnswers) > 0 /\ pc = "done") =>
        /\ PromptAnswers[1].arg # "yes" => Len(Events("save_file")) = 0
        /\ PromptAnswers[1].arg = "yes" => Len(Events("save_file")) = 1
        /\ (PromptAnswers[1].arg # "yes" \/ Events("save_file")[1].arg = "") =>
             /\ EncodeCalls = <<>>
             /\ SaveConfirmations = <<>>

C14_Witness ==
    /\ pc = "done"
    /\ PromptAnswers = <<Ev("ready", "no", 1)>>
    /\ Len(Events("save_file")) = 0
    /\ EncodeCalls = <<>>

\* C15: the stitcher is called at most once in a run; after a status other
\* than OK the run has ended with exactly one error "Panorama could not be
\* created.", and without preview, prompt, save dialog, encode or any
\* notification of success.
C15_StitchFailureIsTerminal ==
    /\ Len(Events("stitch")) <= 1
    /\ (Len(Events("stitch")) = 1 /\ Events("stitch")[1].arg # "OK") =>
         /\ pc = "done"
         /\ Events("notify_error") = <<Ev("notify_error", "Panorama could not be created.", 0)>>
         /\ Len(EventsOf("imshow", "Panorama")) = 0
         /\ Len(Events("waitKey0")) = 0
         /\ Len(Events("message")) = 0
         /\ Len(Events("ready")) = 0
         /\ Len(Events("save_file")) = 0
         /\ EncodeCalls = <<>>
         /\ Len(Events("notify_info")) = 0
         /\ panorama = 0

C15_Witness ==
    /\ pc = "done"
    /\ Events("stitch") = <<Ev("stitch", "ERR_NEED_MORE_IMGS", 2)>>
    /\ Len(Events("notify_error")) = 1

\* the messages of the three failures of a run
FailureMessages ==
    {"Error parsing args", "Not enough images provided", "Panorama could not be created."}

\* C16 (as claimed): every failure written on the console is also sent as an
\* error notification, and each of the three failures is written: a parse
\* error, too few images, a failed stitch.
C16_FailuresOnBothChannels ==
    /\ \A m \in FailureMessages :
         Len(EventsOf("cout", m)) = Len(EventsOf("notify_error", m))
    /\ pc = "done" =>
         /\ status = "ERROR" => Len(EventsOf("cout", "Error parsing args")) = 1
         /\ (status = "OK" /\ Len(images) < 2) =>
              Len(EventsOf("cout", "Not enough images provided")) = 1
         /\ (Len(Events("stitch")) = 1 /\ Events("stitch")[1].arg # "OK") =>
              Len(EventsOf("cout", "Panorama could not be created.")) = 1

\* C17 (as claimed), in the form a finite run decides: on a video that opened
\* and holds the frames it reports, at least one, every read asks for a later
\* position than the one before, so that the positions run out and the loop
\* ends with at most as many images as the video has frames.
C17_SamplerAdvances ==
    (feed.dev = "video" /\ feed.count >= 1 /\ feed.frames = feed.count) =>
        /\ \A i \in 1 .. Len(VideoRequests) - 1 :
             VideoRequests[i].n < VideoRequests[i + 1].n
        /\ Len(images) <= feed.frames

\* the places of the log at which P holds
Places(P(_)) == {i \in 1 .. Len(log) : P(log[i])}

Precede(A, B) == \A i \in A, j \in B : i < j

\* C18: after a successful stitch the steps are logged in this order: the
\* notification of success, the display of the panorama, the key that
\* dismisses the viewer, the opening of the message box, its polls and its
\* answer, the save dialog, cv::imwrite, the notification that it was saved;
\* and none of them occurs without the one before it.
C18_ResultWorkflowOrder ==
    LET Created   == Places(LAMBDA e : e = Ev("notify_info", "Panorama successfully created!", 0))
        Shown     == Places(LAMBDA e : e.op = "imshow" /\ e.arg = "Panorama")
        Dismissed == Places(LAMBDA e : e.op = "waitKey0")
        Prompted  == Places(LAMBDA e : e.op = "message")
        Polled    == Places(LAMBDA e : e.op = "ready" /\ e.n = 0)
        Answered  == Places(LAMBDA e : e.op = "ready" /\ e.n = 1)
        Dialog    == Places(LAMBDA e : e.op = "save_file")
        Encoded   == Places(LAMBDA e : e.op \in {"imwrite", "imwrite_failed"})
        Saved     == Places(LAMBDA e : e.op = "notify_info"
                                        /\ e.arg # "Panorama successfully created!")
    IN  /\ Precede(Places(LAMBDA e : e.op = "stitch"), Created)
        /\ Precede(Created, Shown)
        /\ Precede(Shown, Dismissed)
        /\ Precede(Dismissed, Prompted)
        /\ Precede(Prompted, Polled \cup Answered)
        /\ Precede(Polled, Answered)
        /\ Precede(Answered, Dialog \cup Encoded \cup Saved)
        /\ Precede(Dialog, Encoded)
        /\ Precede(Encoded, Saved)
        /\ Len(EventsOf("stitch", "OK")) = 1 => (Created # {} /\ Shown # {})
        /\ Shown # {} => Created # {}
        /\ Dismissed # {} => Shown # {}
        /\ Prompted # {} => Dismissed # {}
        /\ Polled \cup Answered # {} => Prompted # {}
        /\ Dialog # {} => Answered # {}
        /\ Encoded # {} => Dialog # {}
        /\ Saved # {} => Encoded # {}
        /\ pc = "viewer" <=> (Shown # {} /\ Dismissed = {})
        /\ pc = "prompt" <=> (Prompted # {} /\ Answered = {})

C18_Witness ==
    /\ pc = "done"
    /\ Len(Events("ready")) = 3
    /\ Len(EncodeCalls) = 1
    /\ Len(SaveConfirmations) = 1

\* C19 (as claimed): when cv::imwrite failed, no notification says the
\* panorama was saved, an error notification reports the failure, and the run
\* ends normally.
C19_EncodeFailureSurfaced ==
    (pc = "done" /\ Len(Events("imwrite_failed")) > 0) =>
        /\ SaveConfirmations = <<>>
        /\ Len(Events("notify_error")) > 0
        /\ exitCode = 0

\* C20: when cameraCapture or videoCapture has returned, its feed was
\* released exactly once, after the open and after every read, whether or not
\* it had opened; and cameraCapture has destroyed its windows after the last
\* preview it showed.
C20_FeedReleasedOnReturn ==
    (status = "OK" /\ feed.dev \in {"camera", "video"}) =>
        LET Opened   == Places(LAMBDA e : e.op = "open" /\ e.arg = feed.dev)
            Reads    == Places(LAMBDA e : e.op \in {"read", "read_none"} /\ e.arg = feed.dev)
            Released == Places(LAMBDA e : e.op = "release" /\ e.arg = feed.dev)
            Previews == Places(LAMBDA e : e.op = "imshow" /\ e.arg = "Camera feed")
            Stitches == Places(LAMBDA e : e.op \in {"stitch", "notify_error"})
        IN  /\ Cardinality(Opened) = 1
            /\ Cardinality(Released) = 1
            /\ Precede(Opened \cup Reads, Released)
            /\ Precede(Released, Stitches)
            /\ feed.dev = "camera" =>
                 \E d \in Places(LAMBDA e : e.op = "destroyAllWindows") :
                    /\ Precede(Previews \cup Released, {d})
                    /\ Precede({d}, Stitches)

C20_Witness ==
    /\ status = "OK"
    /\ feed.dev = "camera"
    /\ CameraKeys = <<RETURN, ESCAPE>>
    /\ Len(EventsOf("release", "camera")) = 1
    /\ pc = "done"

\* the entries of the ImageSet that hold pixels: the images acquired
Acquired == {i \in 1 .. Len(images) : images[i] # 0}

\* C21 (as claimed): when acquisition has completed with fewer than two
\* images that hold pixels (the camera did not open, nothing was selected,
\* files could not be decoded), the run was not aborted, the stitcher is
\* not called, and the run ends with the error "Not enough images provided".
C21_AcquisitionErrorsCaught ==
    (status = "OK" /\ Cardinality(Acquired) < 2) =>
        /\ pc # "aborted"
        /\ Len(Events("stitch")) = 0
        /\ pc = "done" =>
             Len(EventsOf("notify_error", "Not enough images provided")) = 1

\* C22: every entry of the catalog has two frames or more, and after runDemo
\* with an id in 0..10 the ImageSet has frameCount entries, entry i read from
\* the path of frame i - 1; the run never reports "Not enough images
\* provided", and once main has gone past its test the stitcher was called
\* once, with all frameCount entries.
C22_DemoReachesStitcher ==
    /\ \A d \in 1 .. Len(demos) : demos[d][2] >= 2
    /\ (Dispatched("demo") /\ argv.demo \in 0 .. 10 /\ pc # "start") =>
         LET name       == demos[argv.demo + 1][1]
             frameCount == demos[argv.demo + 1][2]
         IN  /\ status = "OK"
             /\ pc # "aborted"
             /\ Len(images) = frameCount
             /\ [i \in 1 .. Len(Events("imread")) |-> Events("imread")[i].arg]
                    = [i \in 1 .. frameCount |-> TwoDigitPath(name, i - 1)]
             /\ \A i \in 1 .. Len(images) :
                  images[i] # 0 => heap[images[i]].path = TwoDigitPath(name, i - 1)
             /\ Len(EventsOf("notify_error", "Not enough images provided")) = 0
             /\ Len(EventsOf("cout", "Not enough images provided")) = 0
             /\ pc # "main" =>
                  /\ Len(Events("stitch")) = 1
                  /\ Events("stitch")[1].n = frameCount

\* the smallest dataset ("example", 2 frames), neither file decoded
C22_Witness ==
    /\ Dispatched("demo")
    /\ argv.demo = 2
    /\ images = <<0, 0>>
    /\ Events("stitch") = <<Ev("stitch", "ERR_NEED_MORE_IMGS", 2)>>
    /\ pc = "done"

====
